---- MODULE Spec2Model ----
(***************************************************************************)
(* FIFO taint propagation engine of solprivacy-cli                         *)
(* (src/src/agent/cache.ts, traceStolen / traceFIFO), with the analysis    *)
(* cache (cacheAnalysis, getWalletHistory, clearWalletCache, clearAllCache)*)
(* and the analysis tool that uses it (analyzeWalletCore).                 *)
(*                                                                         *)
(* Spec and FairSpec run one trace; CacheSpec runs the cache operations    *)
(* one after the other; AnalysisSpec runs calls of the analysis tool.      *)
(*                                                                         *)
(* Amounts are exact integers.  A native transfer's amount is held in SOL, *)
(* i.e. after the division by 1e9 of the source.  A percentage is held as  *)
(* the exact fraction [num, den] (num / den percent), so that the          *)
(* comparisons "> 10" and "< 1" of the source are decided without          *)
(* rounding.                                                               *)
(***************************************************************************)
EXTENDS Integers, Sequences, FiniteSets, TLC

VARIABLES
    pc,             \* position of traceStolen / traceFIFO
    stolenAmount,   \* argument of traceFIFO
    maxHops,        \* argument of traceFIFO
    traceType,      \* argument of traceFIFO: "auto", "sol" or "token"
    tokenMint,      \* argument of traceFIFO ("none" when undefined)
    transactions,   \* root response (txResponse.data)
    relevantTxs,    \* outgoing transfers of the traced asset kind, FIFO order
    taintTotal,     \* budget of the first hop
    asset,          \* isTokenTrace, tracingMint, detectedTokenSymbol, totals
    flowGraph,      \* TaintedOutput rows
    endpoints,      \* terminal rows
    visited,        \* Set<string> of expanded addresses
    queue,          \* BFS frontier
    result,         \* the returned TraceResult (NoResult until returned)
    nextTxs,        \* answer to the latest downstream fetch (nextTxResponse.data)
    log,            \* console line of every expansion: outputs found, or failed
    pushed,         \* history: every queue.push, with the row it was made from
    fetched,        \* history: every axios.get, by address, in order
    thrown          \* history: the positions in fetched of the fetches that threw

VARIABLES
    cacheFile,      \* entries of wallet-analyses.json: wallet -> CachedAnalysis[]
    sessionCache,   \* Map<string, PrivacyAnalysis> of the running process
    now,            \* Date.now()
    cachedLog,      \* history: per wallet, every entry cached since its last clear
    lastCall        \* history: the latest call of analyzeWalletCore and its outcome

traceVars == << pc, stolenAmount, maxHops, traceType, tokenMint, transactions,
                relevantTxs, taintTotal, asset, flowGraph, endpoints, visited,
                queue, result, nextTxs, log, pushed, fetched, thrown >>

cacheVars == << cacheFile, sessionCache, now, cachedLog, lastCall >>

vars == << traceVars, cacheVars >>

----------------------------------------------------------------------------
(* Bounds of the model *)

\* largest explicit stolen amount typed at the prompt
MaxStolen == 6
\* largest max-hops value typed at the prompt
MaxHopsInput == 3

(* Program constants *)

\* while (queue.length > 0 && flowGraph.length < 200)
RowCap == 200
\* totalOutgoingTokens > totalOutgoingSol * 1000
TokenMultiplier == 1000
\* else if (taintPercent > 10)
ContinueThreshold == 10
\* if (taintPercent < 1) continue
NoiseThreshold == 1
\* Math.min(10, Math.max(1, ...)) and the prompt default '3'
HopsCeiling == 10
HopsFloor == 1
HopsDefault == 3
\* trimmed.length < 32, trimmed.length > 44
AddressMinLength == 32
AddressMaxLength == 44

----------------------------------------------------------------------------
(* Addresses.  The registry keys stand for the base58 keys of the source. *)

SourceWallet == "S"
None == "none"

KNOWN_ENTITIES ==
    [a \in {"CEX", "DEX", "BRG", "MIX"} |->
        CASE a = "CEX" -> [name |-> "Binance",    type |-> "CEX"]
          [] a = "DEX" -> [name |-> "Jupiter v6", type |-> "DEX"]
          [] a = "BRG" -> [name |-> "Wormhole",   type |-> "BRIDGE"]
          [] a = "MIX" -> [name |-> "Elusiv",     type |-> "MIXER"]]

DEX_PROGRAMS == {"DEX"}

NoEntity == [name |-> None, type |-> None]

\* KNOWN_ENTITIES[address], undefined when the key is absent
Lookup(address) ==
    IF address \in DOMAIN KNOWN_ENTITIES THEN KNOWN_ENTITIES[address] ELSE NoEntity

isSwapTransaction(tx) ==
    \/ tx.type = "SWAP"
    \/ tx.type = "JUPITER_SWAP"
    \/ tx.descHasSwap
    \/ tx.source = "JUPITER"
    \/ tx.source = "RAYDIUM"
    \/ tx.accounts \cap DEX_PROGRAMS # {}

Min(a, b) == IF a <= b THEN a ELSE b
Max(a, b) == IF a >= b THEN a ELSE b

\* the quotient taken whatever the amount: 0 / 0 has no value (denominator 0)
PercentUnguarded(taint, amount) == [num |-> taint * 100, den |-> amount]

\* (taintForThis / amount) * 100, or 0 when amount is not positive
Percent(taint, amount) ==
    IF amount > 0 THEN [num |-> taint * 100, den |-> amount]
                  ELSE [num |-> 0, den |-> 1]

PercentGt(p, n) == p.num > n * p.den
PercentLt(p, n) == p.num < n * p.den

----------------------------------------------------------------------------
(* [...txs].sort((a, b) => (a.timestamp || 0) - (b.timestamp || 0)):       *)
(* ascending and stable.  A missing timestamp is held as 0.                *)

RECURSIVE InsertByTimestamp(_, _)
InsertByTimestamp(sorted, tx) ==
    IF sorted = << >> THEN << tx >>
    ELSE IF sorted[Len(sorted)].timestamp <= tx.timestamp
         THEN Append(sorted, tx)
         ELSE Append(InsertByTimestamp(SubSeq(sorted, 1, Len(sorted) - 1), tx),
                     sorted[Len(sorted)])

\* The loops of the source run over index ranges lo..hi that are split in
\* halves, first half first: the elements are visited in the source's order.
\* The test on the first half's outcome has the evaluator finish the first
\* half before it starts the second, which keeps its stack shallow.
RECURSIVE SortRange(_, _, _, _)
SortRange(sorted, txs, lo, hi) ==
    IF lo > hi THEN sorted
    ELSE IF lo = hi THEN InsertByTimestamp(sorted, txs[lo])
    ELSE LET mid == (lo + hi) \div 2
             left == SortRange(sorted, txs, lo, mid)
         IN  IF Len(left) >= 0 THEN SortRange(left, txs, mid + 1, hi) ELSE left

SortByTimestamp(txs) == SortRange(<< >>, txs, 1, Len(txs))

----------------------------------------------------------------------------
(* Extraction of the source wallet's outgoing transfers (the two inner     *)
(* loops over tx.nativeTransfers and tx.tokenTransfers).                   *)

EmptyExtract ==
    [outgoingTxs |-> << >>, totalOutgoingSol |-> 0, totalOutgoingTokens |-> 0,
     detectedTokenMint |-> None, detectedTokenSymbol |-> None]

NativeStep(acc, tx, transfer) ==
    IF transfer.fromUserAccount = SourceWallet /\ transfer.toUserAccount # SourceWallet
    THEN [acc EXCEPT
            !.totalOutgoingSol = @ + transfer.amount,
            !.outgoingTxs =
                IF traceType = "sol" \/ traceType = "auto"
                THEN Append(@, [to |-> transfer.toUserAccount,
                                amount |-> transfer.amount,
                                signature |-> tx.signature,
                                timestamp |-> tx.timestamp,
                                isToken |-> FALSE,
                                tokenMint |-> None,
                                tokenSymbol |-> None])
                ELSE @]
    ELSE acc

TokenStep(acc, tx, transfer) ==
    IF transfer.fromUserAccount = SourceWallet /\ transfer.toUserAccount # SourceWallet
    THEN IF traceType = "token" /\ tokenMint # None /\ transfer.mint # tokenMint
         THEN acc
         ELSE LET detect == traceType = "auto" /\ transfer.tokenAmount > 0
                            /\ acc.detectedTokenMint = None
                  symbol == IF detect /\ tx.descSymbol # None
                            THEN tx.descSymbol ELSE acc.detectedTokenSymbol
              IN  [acc EXCEPT
                     !.totalOutgoingTokens = @ + transfer.tokenAmount,
                     !.detectedTokenMint = IF detect THEN transfer.mint ELSE @,
                     !.detectedTokenSymbol = symbol,
                     !.outgoingTxs =
                        IF traceType = "token" \/ traceType = "auto"
                        THEN Append(@, [to |-> transfer.toUserAccount,
                                        amount |-> transfer.tokenAmount,
                                        signature |-> tx.signature,
                                        timestamp |-> tx.timestamp,
                                        isToken |-> TRUE,
                                        tokenMint |-> transfer.mint,
                                        tokenSymbol |-> symbol])
                        ELSE @]
    ELSE acc

RECURSIVE NativeLoop(_, _, _)
NativeLoop(acc, tx, i) ==
    IF i > Len(tx.nativeTransfers) THEN acc
    ELSE NativeLoop(NativeStep(acc, tx, tx.nativeTransfers[i]), tx, i + 1)

RECURSIVE TokenLoop(_, _, _)
TokenLoop(acc, tx, i) ==
    IF i > Len(tx.tokenTransfers) THEN acc
    ELSE TokenLoop(TokenStep(acc, tx, tx.tokenTransfers[i]), tx, i + 1)

RECURSIVE ExtractLoop(_, _, _, _)
ExtractLoop(acc, sortedTxs, lo, hi) ==
    IF lo > hi THEN acc
    ELSE IF lo = hi
         THEN TokenLoop(NativeLoop(acc, sortedTxs[lo], 1), sortedTxs[lo], 1)
    ELSE LET mid == (lo + hi) \div 2
             left == ExtractLoop(acc, sortedTxs, lo, mid)
         IN  IF Len(left.outgoingTxs) >= 0
             THEN ExtractLoop(left, sortedTxs, mid + 1, hi) ELSE left

ExtractOutgoing(sortedTxs) == ExtractLoop(EmptyExtract, sortedTxs, 1, Len(sortedTxs))

\* an auto-detection that takes the multiple itself for a token trace
IsTokenTraceFromMultiple(ex) ==
    \/ traceType = "token"
    \/ traceType = "auto" /\ ex.totalOutgoingTokens >= ex.totalOutgoingSol * TokenMultiplier

IsTokenTrace(ex) ==
    \/ traceType = "token"
    \/ traceType = "auto" /\ ex.totalOutgoingTokens > ex.totalOutgoingSol * TokenMultiplier

TracingMint(ex) == IF tokenMint # None THEN tokenMint ELSE ex.detectedTokenMint

RelevantTxs(ex) ==
    LET mint == TracingMint(ex)
    IN  IF IsTokenTrace(ex)
        THEN SelectSeq(ex.outgoingTxs,
                       LAMBDA tx : tx.isToken /\ (mint = None \/ tx.tokenMint = mint))
        ELSE SelectSeq(ex.outgoingTxs, LAMBDA tx : ~tx.isToken)

RECURSIVE SumAmountRange(_, _, _)
SumAmountRange(txs, lo, hi) ==
    IF lo > hi THEN 0
    ELSE IF lo = hi THEN txs[lo].amount
    ELSE LET mid == (lo + hi) \div 2
         IN  SumAmountRange(txs, lo, mid) + SumAmountRange(txs, mid + 1, hi)

\* relevantTxs.reduce((sum, tx) => sum + tx.amount, 0)
SumAmount(txs) == SumAmountRange(txs, 1, Len(txs))

TaintTotal(relevant) ==
    IF stolenAmount > 0 THEN stolenAmount ELSE SumAmount(relevant)

----------------------------------------------------------------------------
(* Allocation of one transfer, shared shape of the three loops.            *)

\* a transfer tainted in full whatever is left of the budget
TaintForThisUncapped(remaining, amount) == amount

\* Math.min(taintRemaining, amount)
TaintForThis(remaining, amount) == Min(remaining, amount)

\* a terminal test that stops at every registered address
IsTerminalAnyEntity(entity) == entity # NoEntity

\* a terminal test that knows exchanges only
IsTerminalCexOnly(entity) == entity # NoEntity /\ entity.type = "CEX"

\* entity && (entity.type === 'CEX' || entity.type === 'BRIDGE')
IsTerminal(entity) ==
    entity # NoEntity /\ (entity.type = "CEX" \/ entity.type = "BRIDGE")

\* let outputEntity = entity; if (isSwap && !entity) outputEntity = DEX Swap
OutputEntity(entity, isSwap) ==
    IF isSwap /\ entity = NoEntity
    THEN [name |-> "DEX Swap", type |-> "DEX"]
    ELSE entity

\* a threshold that lets exactly 10 percent through
ContinuesFromTen(taintPercent) == ~PercentLt(taintPercent, ContinueThreshold)

\* first hop: else if (taintPercent > 10)
ContinuesFirstHop(taintPercent) == PercentGt(taintPercent, ContinueThreshold)

\* expansion: else if (taintPercent > 10 && current.hop + 1 < maxHops)
ContinuesExpansion(taintPercent, hop) ==
    PercentGt(taintPercent, ContinueThreshold) /\ hop + 1 < maxHops

\* if (taintPercent < 1) continue
IsNoise(taintPercent) == PercentLt(taintPercent, NoiseThreshold)

\* a frontier that grows at its head (queue.unshift(item)): depth first
RecordAtFront(acc, output, item, terminal, continues) ==
    LET graph == Append(acc.flowGraph, output)
    IN  [acc EXCEPT
           !.flowGraph = graph,
           !.endpoints = IF terminal THEN Append(@, output) ELSE @,
           !.queue = IF ~terminal /\ continues THEN << item >> \o @ ELSE @,
           !.pushed = IF ~terminal /\ continues
                      THEN Append(@, [row |-> Len(graph), item |-> item])
                      ELSE @]

\* flowGraph.push(output), then endpoints.push(output) or queue.push(item)
Record(acc, output, item, terminal, continues) ==
    LET graph == Append(acc.flowGraph, output)
    IN  [acc EXCEPT
           !.flowGraph = graph,
           !.endpoints = IF terminal THEN Append(@, output) ELSE @,
           !.queue = IF ~terminal /\ continues THEN Append(@, item) ELSE @,
           !.pushed = IF ~terminal /\ continues
                      THEN Append(@, [row |-> Len(graph), item |-> item])
                      ELSE @]

----------------------------------------------------------------------------
(* First hop: for (const tx of relevantTxs) { ... }                        *)

\* sortedTxs.find(t => t.signature === tx.signature)
FindBySignature(sortedTxs, signature) ==
    sortedTxs[CHOOSE i \in 1..Len(sortedTxs) :
                /\ sortedTxs[i].signature = signature
                /\ \A j \in 1..(i - 1) : sortedTxs[j].signature # signature]

FirstHopStep(acc, tx, sortedTxs) ==
    LET taintForThis == TaintForThis(acc.taintRemaining, tx.amount)
        taintPercent == Percent(taintForThis, tx.amount)
        entity == Lookup(tx.to)
        isSwap == isSwapTransaction(FindBySignature(sortedTxs, tx.signature))
        output == [address |-> tx.to,
                   amount |-> tx.amount,
                   taintAmount |-> taintForThis,
                   taintPercent |-> taintPercent,
                   signature |-> tx.signature,
                   timestamp |-> tx.timestamp,
                   hop |-> 1,
                   entity |-> OutputEntity(entity, isSwap),
                   isToken |-> tx.isToken,
                   tokenMint |-> tx.tokenMint,
                   tokenSymbol |-> tx.tokenSymbol]
        item == [address |-> tx.to, taint |-> taintForThis, hop |-> 1,
                 isToken |-> tx.isToken, mint |-> tx.tokenMint]
    IN  Record([acc EXCEPT !.taintRemaining = @ - taintForThis],
               output, item, IsTerminal(entity), ContinuesFirstHop(taintPercent))

\* if (taintRemaining <= 0) break: once the budget is used up it stays so, and
\* every later transfer is passed over
RECURSIVE FirstHopLoop(_, _, _, _, _)
FirstHopLoop(acc, relevant, sortedTxs, lo, hi) ==
    IF lo > hi THEN acc
    ELSE IF lo = hi
         THEN IF acc.taintRemaining <= 0 THEN acc
              ELSE FirstHopStep(acc, relevant[lo], sortedTxs)
    ELSE LET mid == (lo + hi) \div 2
             left == FirstHopLoop(acc, relevant, sortedTxs, lo, mid)
         IN  IF Len(left.flowGraph) >= 0
             THEN FirstHopLoop(left, relevant, sortedTxs, mid + 1, hi) ELSE left

----------------------------------------------------------------------------
(* Expansion of one dequeued item: for (const tx of sortedNextTxs) { ... } *)

ExpandStep(acc, current, tx, to, amount, isToken, mint) ==
    LET taintForThis == TaintForThis(acc.hopTaintRemaining, amount)
        taintPercent == Percent(taintForThis, amount)
        entity == Lookup(to)
        output == [address |-> to,
                   amount |-> amount,
                   taintAmount |-> taintForThis,
                   taintPercent |-> taintPercent,
                   signature |-> tx.signature,
                   timestamp |-> tx.timestamp,
                   hop |-> current.hop + 1,
                   entity |-> OutputEntity(entity, isSwapTransaction(tx)),
                   isToken |-> isToken,
                   tokenMint |-> mint,
                   tokenSymbol |-> None]
        item == [address |-> to, taint |-> taintForThis, hop |-> current.hop + 1,
                 isToken |-> isToken, mint |-> mint]
    IN  IF IsNoise(taintPercent) THEN acc
        ELSE Record([acc EXCEPT !.hopTaintRemaining = @ - taintForThis],
                    output, item, IsTerminal(entity),
                    ContinuesExpansion(taintPercent, current.hop))

RECURSIVE ExpandTokenLoop(_, _, _, _)
ExpandTokenLoop(acc, current, tx, i) ==
    IF i > Len(tx.tokenTransfers) THEN acc
    ELSE LET transfer == tx.tokenTransfers[i]
             hit == /\ transfer.fromUserAccount = current.address
                    /\ transfer.toUserAccount # current.address
                    /\ (current.mint = None \/ transfer.mint = current.mint)
         IN  ExpandTokenLoop(
                 IF hit THEN ExpandStep(acc, current, tx, transfer.toUserAccount,
                                        transfer.tokenAmount, TRUE, transfer.mint)
                        ELSE acc,
                 current, tx, i + 1)

RECURSIVE ExpandNativeLoop(_, _, _, _)
ExpandNativeLoop(acc, current, tx, i) ==
    IF i > Len(tx.nativeTransfers) THEN acc
    ELSE LET transfer == tx.nativeTransfers[i]
             hit == /\ transfer.fromUserAccount = current.address
                    /\ transfer.toUserAccount # current.address
         IN  ExpandNativeLoop(
                 IF hit THEN ExpandStep(acc, current, tx, transfer.toUserAccount,
                                        transfer.amount, FALSE, None)
                        ELSE acc,
                 current, tx, i + 1)

RECURSIVE ExpandLoop(_, _, _, _)
ExpandLoop(acc, current, sortedNextTxs, i) ==
    IF i > Len(sortedNextTxs) \/ acc.hopTaintRemaining <= 0 THEN acc
    ELSE LET tx == sortedNextTxs[i]
             afterTokens == IF current.isToken
                            THEN ExpandTokenLoop(acc, current, tx, 1) ELSE acc
             afterNative == IF ~current.isToken
                            THEN ExpandNativeLoop(afterTokens, current, tx, 1)
                            ELSE afterTokens
         IN  ExpandLoop(afterNative, current, sortedNextTxs, i + 1)

----------------------------------------------------------------------------
(* Summary and the returned TraceResult.                                   *)

RECURSIVE SumTaintRange(_, _, _)
SumTaintRange(rows, lo, hi) ==
    IF lo > hi THEN 0
    ELSE IF lo = hi THEN rows[lo].taintAmount
    ELSE LET mid == (lo + hi) \div 2
         IN  SumTaintRange(rows, lo, mid) + SumTaintRange(rows, mid + 1, hi)

\* rows.reduce((sum, e) => sum + e.taintAmount, 0)
SumTaint(rows) == SumTaintRange(rows, 1, Len(rows))

\* the four filters of the summary
Selects(filter, e) ==
    CASE filter = "firstHop" -> e.hop = 1
      [] filter = "cex"      -> e.entity.type = "CEX"
      [] filter = "bridge"   -> e.entity.type = "BRIDGE"
      [] filter = "dex"      -> e.entity.type = "DEX" \/ e.entity.name = "DEX Swap"

RECURSIVE SumTaintWhere(_, _, _, _)
SumTaintWhere(filter, rows, lo, hi) ==
    IF lo > hi THEN 0
    ELSE IF lo = hi
         THEN IF Selects(filter, rows[lo]) THEN rows[lo].taintAmount ELSE 0
    ELSE LET mid == (lo + hi) \div 2
         IN  SumTaintWhere(filter, rows, lo, mid)
                + SumTaintWhere(filter, rows, mid + 1, hi)

\* a traced amount summed over the rows of every hop
AllHopsTotal(graph) == SumTaint(graph)

\* flowGraph.filter(...).reduce((sum, e) => sum + e.taintAmount, 0)
FirstHopTotal(graph) == SumTaintWhere("firstHop", graph, 1, Len(graph))
\* an exchange total that counts the rows of the first hop only
CexReachedAtFirstHop(graph) ==
    SumTaint(SelectSeq(graph, LAMBDA e : e.hop = 1 /\ e.entity.type = "CEX"))

CexReached(graph) == SumTaintWhere("cex", graph, 1, Len(graph))
BridgeUsed(graph) == SumTaintWhere("bridge", graph, 1, Len(graph))
DexUsed(graph) == SumTaintWhere("dex", graph, 1, Len(graph))

\* Math.max(0, traced - cexReached - dexUsed - bridgeUsed)
Untraced(traced, cexReached, dexUsed, bridgeUsed) ==
    Max(0, traced - cexReached - dexUsed - bridgeUsed)

NoResult == [returned |-> FALSE]

Summarize(graph, ends) ==
    LET traced == FirstHopTotal(graph)
        cexReached == CexReached(graph)
        bridgeUsed == BridgeUsed(graph)
        dexUsed == DexUsed(graph)
    IN  [returned |-> TRUE,
         totalStolen |-> taintTotal,
         traced |-> traced,
         recovered |-> cexReached,
         endpoints |-> ends,
         flowGraph |-> graph,
         summary |-> [cexReached |-> cexReached,
                      dexUsed |-> dexUsed,
                      bridgeUsed |-> bridgeUsed,
                      untraced |-> Untraced(traced, cexReached, dexUsed, bridgeUsed),
                      swapped |-> dexUsed],
         isTokenTrace |-> asset.isTokenTrace,
         tokenMint |-> asset.tracingMint,
         tokenSymbol |-> asset.detectedTokenSymbol]

\* the result returned when the wallet has no transactions
EmptyResult ==
    [returned |-> TRUE,
     totalStolen |-> stolenAmount,
     traced |-> 0,
     recovered |-> 0,
     endpoints |-> << >>,
     flowGraph |-> << >>,
     summary |-> [cexReached |-> 0, dexUsed |-> 0, bridgeUsed |-> 0,
                  untraced |-> stolenAmount, swapped |-> 0],
     isTokenTrace |-> FALSE,
     tokenMint |-> None,
     tokenSymbol |-> None]

----------------------------------------------------------------------------
(* Inputs: what is typed at the prompts, and what the Transaction Source   *)
(* (the Helius API) answers to a fetch.                                    *)

\* a typed numeral is held as << n >>, an empty answer as << >>
AmountTexts == { << >> } \cup { << n >> : n \in {-1, 0, MaxStolen} }
\* a text without a leading numeral ("", "abc") is held as << >>
HopsTexts ==
    { << >> } \cup { << n >> : n \in -1..MaxHopsInput } \cup { << HopsCeiling + 1 >> }
\* a typed address is held by the length of its trimmed text and whether all
\* of its characters are Base58 characters
WalletTexts ==
    { [length |-> 0, base58 |-> TRUE],
      [length |-> AddressMinLength - 1, base58 |-> TRUE],
      [length |-> AddressMaxLength + 1, base58 |-> TRUE],
      [length |-> AddressMinLength, base58 |-> FALSE],
      [length |-> AddressMinLength, base58 |-> TRUE],
      [length |-> AddressMaxLength, base58 |-> TRUE] }
AssetChoices ==
    { [type |-> "auto", mint |-> None], [type |-> "sol", mint |-> None],
      [type |-> "token", mint |-> "m2"] }

\* parseFloat / parseInt of a typed numeral
ParseNumber(text) == text[1]

N(from, to, amount) ==
    [fromUserAccount |-> from, toUserAccount |-> to, amount |-> amount]
T(from, to, amount, mint) ==
    [fromUserAccount |-> from, toUserAccount |-> to, tokenAmount |-> amount,
     mint |-> mint]
Tx(signature, timestamp, natives, tokens) ==
    [signature |-> signature, timestamp |-> timestamp, type |-> "TRANSFER",
     source |-> "SYSTEM_PROGRAM", descHasSwap |-> FALSE, descSymbol |-> None,
     accounts |-> {}, nativeTransfers |-> natives, tokenTransfers |-> tokens]

\* three transfers to an exchange in one transaction
FillerTx(i) ==
    Tx(i, i, << N(SourceWallet, "CEX", 1), N(SourceWallet, "CEX", 1),
                N(SourceWallet, "CEX", 1) >>, << >>)

\* answers for the source wallet (newest first, as the API returns them)
RootResponses ==
    { \* three transfers 3, 5, 2 in time order
      << Tx(3, 3, << N(SourceWallet, "CEX", 2) >>, << >>),
         Tx(2, 2, << N(SourceWallet, "V", 5) >>, << >>),
         Tx(1, 1, << N(SourceWallet, "U", 3) >>, << >>) >>,
      \* a transfer that a budget of 6 taints to exactly 10 percent
      << Tx(1, 1, << N(SourceWallet, "U", 5) >>, << >>),
         Tx(2, 2, << N(SourceWallet, "V", 10) >>, << >>) >>,
      \* a swap to an unregistered pool, a registered DEX, a bridge, a mixer
      << [Tx(1, 1, << N(SourceWallet, "U", 4) >>, << >>) EXCEPT !.type = "SWAP"],
         Tx(2, 2, << N(SourceWallet, "DEX", 4) >>, << >>),
         Tx(3, 0, << N(SourceWallet, "BRG", 2), N(SourceWallet, "MIX", 1) >>, << >>) >>,
      \* tokens of two mints next to a small native transfer
      << [Tx(1, 1, << N(SourceWallet, "U", 1) >>,
                   << T(SourceWallet, "V", 0, "m2"),
                      T(SourceWallet, "U", 2000, "m1") >>) EXCEPT !.descSymbol = "USDC"],
         Tx(2, 2, << >>, << T(SourceWallet, "V", 5, "m2"),
                            T(SourceWallet, "V", 3, "m1") >>) >>,
      \* a token volume of exactly the multiplier times the native volume
      << Tx(1, 1, << N(SourceWallet, "U", 2) >>,
                  << T(SourceWallet, "V", 2 * TokenMultiplier, "m1") >>) >>,
      \* a self transfer, an incoming transfer, a zero amount
      << Tx(1, 1, << N(SourceWallet, SourceWallet, 4), N("U", SourceWallet, 3),
                     N(SourceWallet, "U", 0), N(SourceWallet, "V", 2) >>, << >>) >>,
      \* one transfer of 100
      << Tx(1, 1, << N(SourceWallet, "U", 100) >>, << >>) >>,
      \* 199 rows: one below the cap
      [i \in 1..(RowCap \div 3) |-> FillerTx(i)]
         \o << Tx(RowCap, RowCap, << N(SourceWallet, "U", 5) >>, << >>) >>,
      \* 201 rows: above the cap in the first hop alone
      [i \in 1..(RowCap \div 3 + 1) |-> FillerTx(i)] }

Other(a) == IF a = "U" THEN "V" ELSE "U"

\* answers for an unregistered wallet a
WalletResponses(a) ==
    { << >>,
      \* back to the source wallet, and on to another wallet
      << Tx(12, 5, << N(a, SourceWallet, 5) >>, << >>),
         Tx(11, 4, << N(a, Other(a), 2) >>, << >>) >>,
      \* a deposit at an exchange
      << Tx(13, 2, << N(a, "CEX", 60) >>, << >>) >>,
      \* a large transfer first, small ones after it
      << Tx(14, 1, << N(a, Other(a), 1000) >>, << >>),
         Tx(15, 2, << N(a, "CEX", 1), N(a, a, 7), N(a, "BRG", 0) >>, << >>) >>,
      \* a swap recognised by a DEX program among the accounts
      << [Tx(16, 3, << N(a, Other(a), 3), N(a, "BRG", 2) >>, << >>)
            EXCEPT !.accounts = {"DEX"}] >>,
      \* token transfers
      << Tx(17, 1, << N(a, "MIX", 1) >>,
                   << T(a, Other(a), 2000, "m1"), T(a, "CEX", 5, "m2") >>) >> }

\* answers for a downstream address a: the source wallet and the registered
\* addresses answer with nothing, or with one transfer onwards
ExpandResponses(a) ==
    IF a \in {"U", "V"}
    THEN WalletResponses(a)
    ELSE { << >>, << Tx(11, 4, << N(a, Other(a), 2) >>, << >>) >> }

----------------------------------------------------------------------------
(* The analysis cache (cache.ts) and the session cache (agent tools).      *)

\* Keep max 10 historical entries per wallet
HistoryLimit == 10

\* Default TTL: 1 hour (in milliseconds)
DEFAULT_TTL == 3600000

\* calls of cacheAnalysis in one run of the cache operations
MaxCached == 12

\* fresh analyses in one run of the analysis tool
MaxAnalyses == 3

\* hours that pass in one run of the analysis tool
MaxHours == 1

CacheWallets == {"W1", "W2"}

\* the analyses a fetch can lead to, told apart by their score
Scores == {40, 80}
Analysis(score) == [advancedPrivacyScore |-> score, cached |-> FALSE, cachedAt |-> 0]
Analyses == {Analysis(score) : score \in Scores}

\* the analysis handed to a direct call of cacheAnalysis
DirectAnalyses == {Analysis(40)}

Null == [null |-> TRUE]

\* return { version: 1, entries: {} }
EmptyCache == [w \in {} |-> << >>]

\* cache.entries[walletAddress], nothing when the key is absent
EntriesOf(cache, walletAddress) ==
    IF walletAddress \in DOMAIN cache THEN cache[walletAddress] ELSE << >>

getCachedAnalysis(cache, walletAddress, ttl, time) ==
    LET entries == EntriesOf(cache, walletAddress)
    IN  IF entries = << >> THEN Null
        ELSE LET latest == entries[Len(entries)]
                 age == time - latest.timestamp
             IN  IF age < ttl THEN latest ELSE Null

\* an eviction that starts one entry too late
cacheAnalysisPastLimit(cache, walletAddress, analysis, time) ==
    LET entry == [walletAddress |-> walletAddress, timestamp |-> time,
                  analysis |-> analysis]
        existing == EntriesOf(cache, walletAddress)
        kept == IF Len(existing) > HistoryLimit THEN Tail(existing) ELSE existing
    IN  [w \in DOMAIN cache \cup {walletAddress} |->
            IF w = walletAddress THEN Append(kept, entry) ELSE cache[w]]

\* the cache after cacheAnalysis: shift() at the limit, then push(entry)
cacheAnalysis(cache, walletAddress, analysis, time) ==
    LET entry == [walletAddress |-> walletAddress, timestamp |-> time,
                  analysis |-> analysis]
        existing == EntriesOf(cache, walletAddress)
        kept == IF Len(existing) >= HistoryLimit THEN Tail(existing) ELSE existing
    IN  [w \in DOMAIN cache \cup {walletAddress} |->
            IF w = walletAddress THEN Append(kept, entry) ELSE cache[w]]

getWalletHistory(cache, walletAddress) ==
    LET entries == EntriesOf(cache, walletAddress)
    IN  IF entries = << >> THEN Null
        ELSE LET first == entries[1]
                 last == entries[Len(entries)]
             IN  [walletAddress |-> walletAddress,
                  analyses |-> entries,
                  firstSeen |-> first.timestamp,
                  lastSeen |-> last.timestamp,
                  scoreChange |-> IF Len(entries) > 1
                                  THEN << last.analysis.advancedPrivacyScore
                                            - first.analysis.advancedPrivacyScore >>
                                  ELSE << >>]

\* delete cache.entries[walletAddress]
clearWalletCache(cache, walletAddress) ==
    [w \in DOMAIN cache \ {walletAddress} |-> cache[w]]

NoCall == [called |-> FALSE]

----------------------------------------------------------------------------
(* The state machine.                                                      *)

Init ==
    /\ pc = "prompt"
    /\ stolenAmount = 0
    /\ maxHops = HopsDefault
    /\ traceType = "auto"
    /\ tokenMint = None
    /\ transactions = << >>
    /\ relevantTxs = << >>
    /\ taintTotal = 0
    /\ asset = [isTokenTrace |-> FALSE, tracingMint |-> None,
                detectedTokenSymbol |-> None,
                totalOutgoingSol |-> 0, totalOutgoingTokens |-> 0]
    /\ flowGraph = << >>
    /\ endpoints = << >>
    /\ visited = {}
    /\ queue = << >>
    /\ result = NoResult
    /\ nextTxs = << >>
    /\ log = << >>
    /\ pushed = << >>
    /\ fetched = << >>
    /\ thrown = {}
    /\ cacheFile = EmptyCache
    /\ sessionCache = EmptyCache
    /\ now = 0
    /\ cachedLog = [w \in CacheWallets |-> << >>]
    /\ lastCall = NoCall

\* stolenAmount = amountStr ? parseFloat(amountStr) : 0
ParseAmount(amountStr) == IF amountStr # << >> THEN ParseNumber(amountStr) ELSE 0

\* Math.min(10, Math.max(1, parseInt(maxHopsStr) || 3))
\* (parseInt of a text without a leading numeral is NaN, and NaN || 3 is 3)
ParseHops(maxHopsStr) ==
    LET falsy == maxHopsStr = << >> \/ ParseNumber(maxHopsStr) = 0
    IN  Min(HopsCeiling,
            Max(HopsFloor, IF falsy THEN HopsDefault ELSE ParseNumber(maxHopsStr)))

validateWallet(address) ==
    IF address.length = 0
    THEN [valid |-> FALSE, error |-> "Wallet address cannot be empty"]
    ELSE IF address.length < AddressMinLength
    THEN [valid |-> FALSE, error |-> "Address too short"]
    ELSE IF address.length > AddressMaxLength
    THEN [valid |-> FALSE, error |-> "Address too long"]
    ELSE IF ~address.base58
    THEN [valid |-> FALSE, error |-> "Invalid characters"]
    ELSE [valid |-> TRUE, error |-> None]

\* if (!validation.valid) { console.log(error); return; }
InvalidWallet(stolenWallet) ==
    /\ pc = "prompt"
    /\ UNCHANGED cacheVars
    /\ ~validateWallet(stolenWallet).valid
    /\ pc' = "invalid"
    /\ UNCHANGED << stolenAmount, maxHops, traceType, tokenMint, transactions,
                    relevantTxs, taintTotal, asset, flowGraph, endpoints, visited,
                    queue, result, nextTxs, log, pushed, fetched, thrown >>

\* traceStolen: the prompts, then the call of traceFIFO
TraceStolen(stolenWallet, amountStr, maxHopsStr, choice) ==
    /\ pc = "prompt"
    /\ UNCHANGED cacheVars
    /\ validateWallet(stolenWallet).valid
    /\ stolenAmount' = ParseAmount(amountStr)
    /\ maxHops' = ParseHops(maxHopsStr)
    /\ traceType' = choice.type
    /\ tokenMint' = choice.mint
    /\ pc' = "root"
    /\ UNCHANGED << transactions, relevantTxs, taintTotal, asset, flowGraph,
                    endpoints, visited, queue, result, nextTxs, log, pushed,
                    fetched, thrown >>

\* a failing root fetch taken for a wallet without transactions
RootFetchFailsSwallowed ==
    /\ pc = "root"
    /\ UNCHANGED cacheVars
    /\ fetched' = Append(fetched, SourceWallet)
    /\ thrown' = thrown \cup {Len(fetched')}
    /\ result' = EmptyResult
    /\ pc' = "returned"
    /\ UNCHANGED << stolenAmount, maxHops, traceType, tokenMint, transactions,
                    relevantTxs, taintTotal, asset, flowGraph, endpoints, visited,
                    queue, nextTxs, log, pushed >>

\* the root axios.get throws: traceFIFO rejects, traceStolen logs the error
RootFetchFails ==
    /\ pc = "root"
    /\ UNCHANGED cacheVars
    /\ fetched' = Append(fetched, SourceWallet)
    /\ thrown' = thrown \cup {Len(fetched')}
    /\ pc' = "error"
    /\ UNCHANGED << stolenAmount, maxHops, traceType, tokenMint, transactions,
                    relevantTxs, taintTotal, asset, flowGraph, endpoints, visited,
                    queue, result, nextTxs, log, pushed >>

\* if (transactions.length === 0) return { ... }
NoTransactions ==
    /\ pc = "root"
    /\ UNCHANGED cacheVars
    /\ fetched' = Append(fetched, SourceWallet)
    /\ transactions' = << >>
    /\ result' = EmptyResult
    /\ pc' = "returned"
    /\ UNCHANGED << stolenAmount, maxHops, traceType, tokenMint, relevantTxs,
                    taintTotal, asset, flowGraph, endpoints, visited, queue,
                    nextTxs, log, pushed, thrown >>

\* the root fetch answers, the transfers are extracted and the first hop allocated
FirstHop(response) ==
    /\ pc = "root"
    /\ UNCHANGED cacheVars
    /\ response # << >>
    /\ fetched' = Append(fetched, SourceWallet)
    /\ transactions' = response
    /\ LET sortedTxs == SortByTimestamp(response)
           ex == ExtractOutgoing(sortedTxs)
           relevant == RelevantTxs(ex)
           total == TaintTotal(relevant)
           acc == FirstHopLoop([flowGraph |-> << >>, endpoints |-> << >>,
                                queue |-> << >>, pushed |-> << >>,
                                taintRemaining |-> total],
                               relevant, sortedTxs, 1, Len(relevant))
       IN  /\ relevantTxs' = relevant
           /\ taintTotal' = total
           /\ asset' = [isTokenTrace |-> IsTokenTrace(ex),
                        tracingMint |-> TracingMint(ex),
                        detectedTokenSymbol |-> ex.detectedTokenSymbol,
                        totalOutgoingSol |-> ex.totalOutgoingSol,
                        totalOutgoingTokens |-> ex.totalOutgoingTokens]
           /\ flowGraph' = acc.flowGraph
           /\ endpoints' = acc.endpoints
           /\ queue' = acc.queue
           /\ pushed' = acc.pushed
    /\ pc' = "bfs"
    /\ UNCHANGED << stolenAmount, maxHops, traceType, tokenMint, visited, result,
                    nextTxs, log, thrown >>

\* a loop that runs until the queue is empty, whatever the graph's size
LoopWhileQueued == Len(queue) > 0

\* while (queue.length > 0 && flowGraph.length < 200)
LoopContinues == Len(queue) > 0 /\ Len(flowGraph) < RowCap

\* a dequeue that leaves the item in the queue
Peek(q) == q

\* queue.shift()
Shift(q) == Tail(q)

\* a hop guard that lets an item at the limit through
PastHopLimit(current) == current.hop > maxHops

\* if (current.hop >= maxHops) continue
AtHopLimit(current) == current.hop >= maxHops

\* a visited guard that never fires
NeverVisited(current) == FALSE

\* if (visited.has(current.address)) continue
AlreadyVisited(current) == current.address \in visited

SkipHopLimit ==
    /\ pc = "bfs"
    /\ UNCHANGED cacheVars
    /\ LoopContinues
    /\ AtHopLimit(Head(queue))
    /\ queue' = Shift(queue)
    /\ UNCHANGED << pc, stolenAmount, maxHops, traceType, tokenMint, transactions,
                    relevantTxs, taintTotal, asset, flowGraph, endpoints, visited,
                    result, nextTxs, log, pushed, fetched, thrown >>

SkipVisited ==
    /\ pc = "bfs"
    /\ UNCHANGED cacheVars
    /\ LoopContinues
    /\ ~AtHopLimit(Head(queue))
    /\ AlreadyVisited(Head(queue))
    /\ queue' = Shift(queue)
    /\ UNCHANGED << pc, stolenAmount, maxHops, traceType, tokenMint, transactions,
                    relevantTxs, taintTotal, asset, flowGraph, endpoints, visited,
                    result, nextTxs, log, pushed, fetched, thrown >>

\* one iteration of the loop whose fetch answers
Expand ==
    /\ pc = "bfs"
    /\ UNCHANGED cacheVars
    /\ LoopContinues
    /\ ~AtHopLimit(Head(queue))
    /\ ~AlreadyVisited(Head(queue))
    /\ \E response \in ExpandResponses(Head(queue).address) :
          LET current == Head(queue)
              acc == ExpandLoop([flowGraph |-> flowGraph, endpoints |-> endpoints,
                                 queue |-> Shift(queue), pushed |-> pushed,
                                 hopTaintRemaining |-> current.taint],
                                current, SortByTimestamp(response), 1)
          IN  /\ visited' = visited \cup {current.address}
              /\ fetched' = Append(fetched, current.address)
              /\ nextTxs' = response
              /\ log' = Append(log, [item |-> current, failed |-> FALSE,
                                     outputs |-> Len(acc.flowGraph) - Len(flowGraph)])
              /\ flowGraph' = acc.flowGraph
              /\ endpoints' = acc.endpoints
              /\ queue' = acc.queue
              /\ pushed' = acc.pushed
    /\ UNCHANGED << pc, stolenAmount, maxHops, traceType, tokenMint, transactions,
                    relevantTxs, taintTotal, asset, result, thrown >>

\* a failing downstream fetch that is not caught and ends the trace
ExpandFailsFatal ==
    /\ pc = "bfs"
    /\ UNCHANGED cacheVars
    /\ LoopContinues
    /\ ~AtHopLimit(Head(queue))
    /\ ~AlreadyVisited(Head(queue))
    /\ visited' = visited \cup {Head(queue).address}
    /\ fetched' = Append(fetched, Head(queue).address)
    /\ thrown' = thrown \cup {Len(fetched')}
    /\ queue' = Shift(queue)
    /\ log' = Append(log, [item |-> Head(queue), failed |-> TRUE, outputs |-> 0])
    /\ pc' = "error"
    /\ UNCHANGED << stolenAmount, maxHops, traceType, tokenMint, transactions,
                    relevantTxs, taintTotal, asset, flowGraph, endpoints, result,
                    nextTxs, pushed >>

\* one iteration of the loop whose fetch throws: catch { log }
ExpandFails ==
    /\ pc = "bfs"
    /\ UNCHANGED cacheVars
    /\ LoopContinues
    /\ ~AtHopLimit(Head(queue))
    /\ ~AlreadyVisited(Head(queue))
    /\ visited' = visited \cup {Head(queue).address}
    /\ fetched' = Append(fetched, Head(queue).address)
    /\ thrown' = thrown \cup {Len(fetched')}
    /\ queue' = Shift(queue)
    /\ log' = Append(log, [item |-> Head(queue), failed |-> TRUE, outputs |-> 0])
    /\ UNCHANGED << pc, stolenAmount, maxHops, traceType, tokenMint, transactions,
                    relevantTxs, taintTotal, asset, flowGraph, endpoints, result,
                    nextTxs, pushed >>

\* the loop ends: the summary is computed and the TraceResult returned
Return ==
    /\ pc = "bfs"
    /\ UNCHANGED cacheVars
    /\ ~LoopContinues
    /\ result' = Summarize(flowGraph, endpoints)
    /\ pc' = "returned"
    /\ UNCHANGED << stolenAmount, maxHops, traceType, tokenMint, transactions,
                    relevantTxs, taintTotal, asset, flowGraph, endpoints, visited,
                    queue, nextTxs, log, pushed, fetched,
                    thrown >>

Next ==
    \/ \E stolenWallet \in WalletTexts : InvalidWallet(stolenWallet)
    \/ \E stolenWallet \in WalletTexts, amountStr \in AmountTexts,
          maxHopsStr \in HopsTexts, choice \in AssetChoices :
          TraceStolen(stolenWallet, amountStr, maxHopsStr, choice)
    \/ RootFetchFails
    \/ NoTransactions
    \/ \E response \in RootResponses : FirstHop(response)
    \/ SkipHopLimit
    \/ SkipVisited
    \/ Expand
    \/ ExpandFails
    \/ Return

Spec == Init /\ [][Next]_vars

\* one pass of the while loop, or the code after it
LoopStep == SkipHopLimit \/ SkipVisited \/ Expand \/ ExpandFails \/ Return

\* every downstream fetch answers or throws (timeout: 30000) and the delay
\* between fetches elapses, so the loop keeps stepping once it is entered
FairSpec == Spec /\ WF_vars(LoopStep)

----------------------------------------------------------------------------
(* Cache operations called one after the other.                            *)

\* cacheAnalysis(walletAddress, analysis): load, evict, push, save
CacheAnalysis(walletAddress, analysis) ==
    /\ now < MaxCached
    /\ now' = now + 1
    /\ cacheFile' = cacheAnalysis(cacheFile, walletAddress, analysis, now')
    /\ cachedLog' = [cachedLog EXCEPT ![walletAddress] =
                        Append(@, [walletAddress |-> walletAddress,
                                   timestamp |-> now', analysis |-> analysis])]
    /\ UNCHANGED << traceVars, sessionCache, lastCall >>

\* clearWalletCache(walletAddress) that finds the wallet and returns true
ClearWalletCache(walletAddress) ==
    /\ walletAddress \in DOMAIN cacheFile
    /\ cacheFile' = clearWalletCache(cacheFile, walletAddress)
    /\ cachedLog' = [cachedLog EXCEPT ![walletAddress] = << >>]
    /\ UNCHANGED << traceVars, sessionCache, now, lastCall >>

\* clearAllCache()
ClearAllCache ==
    /\ DOMAIN cacheFile # {}
    /\ cacheFile' = EmptyCache
    /\ cachedLog' = [w \in CacheWallets |-> << >>]
    /\ UNCHANGED << traceVars, sessionCache, now, lastCall >>

CacheNext ==
    \/ \E walletAddress \in CacheWallets, analysis \in DirectAnalyses :
          CacheAnalysis(walletAddress, analysis)
    \/ \E walletAddress \in CacheWallets : ClearWalletCache(walletAddress)
    \/ ClearAllCache

CacheSpec == Init /\ [][CacheNext]_vars

----------------------------------------------------------------------------
(* The analysis tool: analyzeWalletTool -> analyzeWalletCore.              *)

\* what the environment gives one call: whether a Helius key is configured,
\* the answer of the fetch ("throws" covers a response that is not ok), and
\* the analysis its transactions lead to
KeyChoices == BOOLEAN
FetchChoices == {"throws", "empty", "transactions"}

TotalCached == Len(EntriesOf(cacheFile, "W1")) + Len(EntriesOf(cacheFile, "W2"))

AnalyzeWalletCore(walletAddress, forceRefresh, heliusKey, fetch, analysis) ==
    LET cached == IF forceRefresh THEN Null
                  ELSE getCachedAnalysis(cacheFile, walletAddress, DEFAULT_TTL, now)
        answer(source, didFetch, error, returned) ==
            [called |-> TRUE, walletAddress |-> walletAddress,
             forceRefresh |-> forceRefresh, source |-> source,
             fetched |-> didFetch, error |-> error, analysis |-> returned]
    IN  IF cached # Null
        THEN /\ lastCall' = answer("disk", FALSE, FALSE,
                                   [cached.analysis EXCEPT !.cached = TRUE,
                                                           !.cachedAt = cached.timestamp])
             /\ UNCHANGED << traceVars, cacheFile, sessionCache, now, cachedLog >>
        ELSE IF walletAddress \in DOMAIN sessionCache
        THEN /\ lastCall' = answer("session", FALSE, FALSE, sessionCache[walletAddress])
             /\ UNCHANGED << traceVars, cacheFile, sessionCache, now, cachedLog >>
        ELSE IF ~heliusKey
        THEN /\ lastCall' = answer("none", FALSE, TRUE, Analysis(0))
             /\ UNCHANGED << traceVars, cacheFile, sessionCache, now, cachedLog >>
        ELSE IF fetch \in {"throws", "empty"}
        THEN /\ lastCall' = answer("none", TRUE, TRUE, Analysis(0))
             /\ UNCHANGED << traceVars, cacheFile, sessionCache, now, cachedLog >>
        ELSE /\ TotalCached < MaxAnalyses
             /\ now' = now + 1
             /\ sessionCache' = [w \in DOMAIN sessionCache \cup {walletAddress} |->
                                    IF w = walletAddress THEN analysis ELSE sessionCache[w]]
             /\ cacheFile' = cacheAnalysis(cacheFile, walletAddress, analysis, now')
             /\ cachedLog' = [cachedLog EXCEPT ![walletAddress] =
                                 Append(@, [walletAddress |-> walletAddress,
                                            timestamp |-> now', analysis |-> analysis])]
             /\ lastCall' = answer("fetch", TRUE, FALSE, analysis)
             /\ UNCHANGED traceVars

\* an hour passes
HourPasses ==
    /\ now < MaxHours * DEFAULT_TTL
    /\ now' = now + DEFAULT_TTL
    /\ UNCHANGED << traceVars, cacheFile, sessionCache, cachedLog, lastCall >>

\* the process ends and a new one starts: const sessionCache = new Map()
NewSession ==
    /\ DOMAIN sessionCache # {}
    /\ sessionCache' = EmptyCache
    /\ lastCall' = NoCall
    /\ UNCHANGED << traceVars, cacheFile, now, cachedLog >>

AnalysisNext ==
    \/ \E walletAddress \in CacheWallets, forceRefresh \in BOOLEAN,
          heliusKey \in KeyChoices, fetch \in FetchChoices, analysis \in Analyses :
          AnalyzeWalletCore(walletAddress, forceRefresh, heliusKey, fetch, analysis)
    \/ HourPasses
    \/ NewSession

AnalysisSpec == Init /\ [][AnalysisNext]_vars

----------------------------------------------------------------------------
(* Properties.                                                             *)

HopOneRows(graph) == SelectSeq(graph, LAMBDA e : e.hop = 1)

\* C1. Conservation: in every returned TraceResult the taint of the hop-1
\* rows sums to at most totalStolen, and to exactly totalStolen whenever the
\* relevant outgoing transfers of the source amount to at least totalStolen.
Conservation ==
    result.returned =>
        LET hopOneTaint == SumTaint(HopOneRows(result.flowGraph))
        IN  /\ hopOneTaint <= result.totalStolen
            /\ SumAmount(relevantTxs) >= result.totalStolen
                  => hopOneTaint = result.totalStolen

\* C5. No double visit: no address is fetched more than once during a trace,
\* the source wallet of the first hop included.
NoDoubleVisit ==
    \A i, j \in DOMAIN fetched : fetched[i] = fetched[j] => i = j

\* C6. Hard row cap: the flow graph never holds more than 200 rows, during
\* the trace and in the returned TraceResult.
HardRowCap ==
    /\ Len(flowGraph) <= RowCap
    /\ result.returned => Len(result.flowGraph) <= RowCap

\* C9. Reconciliation non-negativity: the untraced amount of every returned
\* TraceResult is at least 0.
UntracedNonNegative ==
    result.returned => result.summary.untraced >= 0

\* C10. Global reconciliation: in every returned TraceResult the recovered,
\* swapped, bridged and untraced amounts add up to the traced amount.
ReconciliationSum ==
    result.returned =>
        result.recovered + result.summary.swapped + result.summary.bridgeUsed
            + result.summary.untraced = result.traced

\* the source's outgoing transfers of the traced asset kind, counted on the
\* root answer itself
RelevantCount ==
    LET natives(tx) == {i \in DOMAIN tx.nativeTransfers :
                          /\ tx.nativeTransfers[i].fromUserAccount = SourceWallet
                          /\ tx.nativeTransfers[i].toUserAccount # SourceWallet}
        tokens(tx) == {i \in DOMAIN tx.tokenTransfers :
                          /\ tx.tokenTransfers[i].fromUserAccount = SourceWallet
                          /\ tx.tokenTransfers[i].toUserAccount # SourceWallet
                          /\ \/ asset.tracingMint = None
                             \/ tx.tokenTransfers[i].mint = asset.tracingMint}
        count(tx) == IF asset.isTokenTrace THEN Cardinality(tokens(tx))
                                           ELSE Cardinality(natives(tx))
        sum[k \in 0..Len(transactions)] ==
            IF k = 0 THEN 0 ELSE sum[k - 1] + count(transactions[k])
    IN  sum[Len(transactions)]

\* min(a_i, max(0, B - (a_1 + ... + a_(i-1))))
ReferenceTaint(txs, budget, i) ==
    Min(txs[i].amount, Max(0, budget - SumAmountRange(txs, 1, i - 1)))

\* the first hop against the reference allocator run with the given budget
FirstHopMatches(budget) ==
    LET rows == HopOneRows(flowGraph)
        n == Len(relevantTxs)
    IN  /\ n = RelevantCount
        /\ Len(rows) <= n
        /\ \A i \in 1..(n - 1) :
              relevantTxs[i].timestamp <= relevantTxs[i + 1].timestamp
        /\ \A i \in 1..n :
              IF i <= Len(rows)
              THEN /\ rows[i].taintAmount = ReferenceTaint(relevantTxs, budget, i)
                   /\ rows[i].address = relevantTxs[i].to
                   /\ rows[i].amount = relevantTxs[i].amount
                   /\ rows[i].signature = relevantTxs[i].signature
              ELSE ReferenceTaint(relevantTxs, budget, i) = 0
        /\ ([i \in 1..n |-> relevantTxs[i].amount] = << 3, 5, 2 >> /\ budget = 6)
              => [i \in 1..Len(rows) |-> rows[i].taintAmount] = << 3, 3 >>

----------------------------------------------------------------------------
(* The candidates of the latest expansion, read from its answer.           *)

CandidatesOfTx(item, tx) ==
    IF item.isToken
    THEN LET hits == SelectSeq(tx.tokenTransfers,
                        LAMBDA t : /\ t.fromUserAccount = item.address
                                   /\ t.toUserAccount # item.address
                                   /\ (item.mint = None \/ t.mint = item.mint))
         IN  [i \in 1..Len(hits) |-> [to |-> hits[i].toUserAccount,
                                      amount |-> hits[i].tokenAmount,
                                      signature |-> tx.signature]]
    ELSE LET hits == SelectSeq(tx.nativeTransfers,
                        LAMBDA t : /\ t.fromUserAccount = item.address
                                   /\ t.toUserAccount # item.address)
         IN  [i \in 1..Len(hits) |-> [to |-> hits[i].toUserAccount,
                                      amount |-> hits[i].amount,
                                      signature |-> tx.signature]]

RECURSIVE CandidatesFrom(_, _, _)
CandidatesFrom(item, txs, i) ==
    IF i > Len(txs) THEN << >>
    ELSE CandidatesOfTx(item, txs[i]) \o CandidatesFrom(item, txs, i + 1)

\* candidate transfers of the expanded address in ascending timestamp order
Candidates(item, txs) == CandidatesFrom(item, SortByTimestamp(txs), 1)

\* rows are recorded in candidate order: row r belongs to the first candidate
\* after the one of row r - 1 that has its address, amount and signature
RECURSIVE MatchRows(_, _, _, _)
MatchRows(rows, cands, r, c) ==
    IF r > Len(rows) \/ c > Len(cands) THEN << >>
    ELSE IF /\ rows[r].address = cands[c].to
            /\ rows[r].amount = cands[c].amount
            /\ rows[r].signature = cands[c].signature
         THEN << c >> \o MatchRows(rows, cands, r + 1, c + 1)
         ELSE MatchRows(rows, cands, r, c + 1)

LastRows(n) == SubSeq(flowGraph, Len(flowGraph) - n + 1, Len(flowGraph))

\* taint received by candidate c of the latest expansion
Received(rows, match, c) ==
    IF \E k \in DOMAIN match : match[k] = c
    THEN rows[CHOOSE k \in DOMAIN match : match[k] = c].taintAmount
    ELSE 0

ExpansionJustDone ==
    /\ pc = "bfs"
    /\ log # << >>
    /\ ~log[Len(log)].failed
    /\ Len(fetched) = Len(log) + 1

\* C3. FIFO ordering in every allocation: in the first hop and in every
\* expansion, a candidate transfer receives taint only if every earlier
\* candidate (in ascending timestamp order) received its full amount.
FifoOrdering ==
    /\ LET rows == HopOneRows(flowGraph)
       IN  \A i \in DOMAIN rows :
              rows[i].taintAmount > 0
                 => \A j \in 1..(i - 1) : rows[j].taintAmount = rows[j].amount
    /\ ExpansionJustDone =>
          LET entry == log[Len(log)]
              cands == Candidates(entry.item, nextTxs)
              rows == LastRows(entry.outputs)
              match == MatchRows(rows, cands, 1, 1)
          IN  /\ Len(match) = Len(rows)
              /\ \A c \in DOMAIN cands :
                    Received(rows, match, c) > 0
                       => \A b \in 1..(c - 1) :
                             Received(rows, match, b) = cands[b].amount

----------------------------------------------------------------------------

\* C4. Termination: once the first hop is done, whatever the max-hops value,
\* the transfer graph (cycles included) and the outcome of each downstream
\* fetch, the trace eventually returns a TraceResult.
Termination == (pc = "bfs") ~> (pc = "returned" /\ result.returned)

\* C4 witness: a TraceResult returned by a trace that met a cycle back to the
\* source wallet and a failing downstream fetch.
ReturnedAfterCycleAndFailure ==
    /\ pc = "returned"
    /\ result.returned
    /\ \E i \in DOMAIN flowGraph :
          flowGraph[i].address = SourceWallet /\ flowGraph[i].hop >= 2
    /\ \E i \in DOMAIN log : log[i].failed
    /\ \E i \in DOMAIN log : ~log[i].failed /\ log[i].item.address = SourceWallet

RegisteredTerminal(address) ==
    /\ address \in DOMAIN KNOWN_ENTITIES
    /\ KNOWN_ENTITIES[address].type \in {"CEX", "BRIDGE"}

\* C7. Entity terminal rule: a row classified as exchange or bridge, at any
\* hop, is among the endpoints and no frontier item was ever enqueued from
\* it; no registered exchange or bridge address is queued or expanded.
EntityTerminalRule ==
    /\ \A i \in DOMAIN flowGraph :
          flowGraph[i].entity.type \in {"CEX", "BRIDGE"}
             => /\ \E e \in DOMAIN endpoints : endpoints[e] = flowGraph[i]
                /\ \A p \in DOMAIN pushed : pushed[p].row # i
    /\ \A p \in DOMAIN pushed : ~RegisteredTerminal(pushed[p].item.address)
    /\ \A q \in DOMAIN queue : ~RegisteredTerminal(queue[q].address)
    /\ \A a \in visited : ~RegisteredTerminal(a)
    /\ \A i \in DOMAIN log : ~RegisteredTerminal(log[i].item.address)

\* C7 witness: a bridge row at hop 1 and an exchange row at a deeper hop, both
\* endpoints, after some other row was enqueued and expanded.
TerminalRowsAtTwoHops ==
    /\ \E i \in DOMAIN endpoints :
          endpoints[i].hop = 1 /\ endpoints[i].entity.type = "BRIDGE"
    /\ \E i \in DOMAIN endpoints :
          endpoints[i].hop >= 2 /\ endpoints[i].entity.type = "CEX"
    /\ pushed # << >>
    /\ visited # {}

\* C8. Threshold pruning: every frontier item ever enqueued was made from a
\* row tainted by more than 10 percent, has that row's address and carries
\* that row's taintAmount as its residual taint; a row tainted by 10 percent
\* or less is never enqueued from, whatever its hop; the queue holds enqueued
\* items only.
ThresholdPruning ==
    /\ \A p \in DOMAIN pushed :
          LET row == flowGraph[pushed[p].row]
          IN  /\ pushed[p].row \in DOMAIN flowGraph
              /\ row.taintAmount * 100 > ContinueThreshold * row.amount
              /\ PercentGt(row.taintPercent, ContinueThreshold)
              /\ pushed[p].item.taint = row.taintAmount
              /\ pushed[p].item.address = row.address
              /\ pushed[p].item.hop = row.hop
    /\ \A i \in DOMAIN flowGraph :
          flowGraph[i].taintAmount * 100 <= ContinueThreshold * flowGraph[i].amount
             => \A p \in DOMAIN pushed : pushed[p].row # i
    /\ \A q \in DOMAIN queue : \E p \in DOMAIN pushed : pushed[p].item = queue[q]

\* C8 witness: an unclassified row below the hop limit tainted by exactly 10
\* percent that was not enqueued, next to a row that was.
TenPercentRowPruned ==
    /\ \E i \in DOMAIN flowGraph :
          /\ flowGraph[i].taintAmount > 0
          /\ flowGraph[i].taintAmount * 100 = ContinueThreshold * flowGraph[i].amount
          /\ flowGraph[i].entity = NoEntity
          /\ flowGraph[i].hop < maxHops
          /\ \A p \in DOMAIN pushed : pushed[p].row # i
    /\ pushed # << >>

----------------------------------------------------------------------------
(* The end-to-end scenario: 100 to U at t1, U deposits 60 at an exchange   *)
(* at t2, max hops 3, no explicit amount.                                  *)

ScenarioRoot == << Tx(1, 1, << N(SourceWallet, "U", 100) >>, << >>) >>
ScenarioNext == << Tx(13, 2, << N("U", "CEX", 60) >>, << >>) >>

\* address, taint and hop of each row
Outline(rows) ==
    [i \in 1..Len(rows) |-> [address |-> rows[i].address,
                             taintAmount |-> rows[i].taintAmount,
                             hop |-> rows[i].hop]]

ScenarioTraced ==
    /\ pc = "returned"
    /\ result.returned
    /\ transactions = ScenarioRoot
    /\ traceType \in {"auto", "sol"}
    /\ stolenAmount = 0
    /\ maxHops = 3
    /\ fetched = << SourceWallet, "U" >>
    /\ thrown = {}
    /\ nextTxs = ScenarioNext

\* C11. End-to-end scenario: the source sends 100 to the unregistered U, U
\* sends 60 to a registered exchange, max hops is 3: the returned flow graph
\* is [U taint 100 hop 1, exchange taint 60 hop 2], the endpoints are
\* [exchange taint 60], the exchange amount is 60, the traced amount 100 and
\* the untraced amount 40.
EndToEndScenario ==
    ScenarioTraced =>
        /\ Outline(result.flowGraph)
              = << [address |-> "U", taintAmount |-> 100, hop |-> 1],
                   [address |-> "CEX", taintAmount |-> 60, hop |-> 2] >>
        /\ result.flowGraph[2].entity.type = "CEX"
        /\ result.flowGraph[1].entity = NoEntity
        /\ Outline(result.endpoints)
              = << [address |-> "CEX", taintAmount |-> 60, hop |-> 2] >>
        /\ result.summary.cexReached = 60
        /\ result.recovered = 60
        /\ result.traced = 100
        /\ result.totalStolen = 100
        /\ result.summary.untraced = 40

\* C11 witness: the scenario was traced to its end and returned two rows.
ScenarioReturned == ScenarioTraced /\ Len(result.flowGraph) = 2

----------------------------------------------------------------------------
(* The rows of each expansion, read from the console lines.                *)

\* rows pushed by the expansions from the i-th on
RECURSIVE OutputsFrom(_)
OutputsFrom(i) == IF i > Len(log) THEN 0 ELSE log[i].outputs + OutputsFrom(i + 1)

\* the rows pushed while the item of the i-th console line was expanded
RowsOfExpansion(i) ==
    SubSeq(flowGraph, Len(flowGraph) - OutputsFrom(i) + 1,
                      Len(flowGraph) - OutputsFrom(i + 1))

\* C12. Per-parent budget: the rows an expanded frontier item produced (all
\* at the item's hop plus one) carry taint that sums to at most the item's
\* residual taint.
PerParentBudget ==
    \A i \in DOMAIN log :
        LET rows == RowsOfExpansion(i)
        IN  /\ SumTaint(rows) <= log[i].item.taint
            /\ \A r \in DOMAIN rows : rows[r].hop = log[i].item.hop + 1

\* C12 witness: an expansion of several rows that used the item's taint up,
\* the last of them tainted in part only.
BudgetUsedUp ==
    \E i \in DOMAIN log :
        LET rows == RowsOfExpansion(i)
        IN  /\ Len(rows) >= 2
            /\ SumTaint(rows) = log[i].item.taint
            /\ rows[Len(rows)].taintAmount < rows[Len(rows)].amount

----------------------------------------------------------------------------

\* C13. Row invariant: every row of the flow graph has 0 <= taintAmount <=
\* amount and taintPercent = taintAmount / amount * 100, which is 0 when the
\* amount is 0 (transfer amounts are non-negative).
RowInvariant ==
    \A i \in DOMAIN flowGraph :
        LET e == flowGraph[i]
        IN  /\ e.amount >= 0
            /\ 0 <= e.taintAmount
            /\ e.taintAmount <= e.amount
            /\ e.taintPercent.den > 0
            /\ e.amount > 0 =>
                  e.taintPercent.num * e.amount = e.taintAmount * 100 * e.taintPercent.den
            /\ e.amount = 0 => e.taintPercent.num = 0

\* C13 witness: a row of amount 0 next to a row tainted in part.
ZeroAndPartialRows ==
    /\ \E i \in DOMAIN flowGraph : flowGraph[i].amount = 0
    /\ \E i \in DOMAIN flowGraph :
          /\ 0 < flowGraph[i].taintAmount
          /\ flowGraph[i].taintAmount < flowGraph[i].amount

----------------------------------------------------------------------------

\* taint of the rows of a category, whatever their hop
CategoryTaint(rows, type) ==
    SumTaint(SelectSeq(rows, LAMBDA e : e.entity.type = type))

\* C14. Reconciler sums: in the returned TraceResult the exchange, bridge and
\* swap amounts are the taint of all rows, at any hop, classified exchange,
\* bridge and swap venue (registered or heuristic "DEX Swap"); the recovered
\* amount is the exchange amount; the traced amount is the taint of the hop-1
\* rows only.
ReconcilerSums ==
    result.returned =>
        /\ result.summary.cexReached = CategoryTaint(result.flowGraph, "CEX")
        /\ result.summary.bridgeUsed = CategoryTaint(result.flowGraph, "BRIDGE")
        /\ result.summary.dexUsed = CategoryTaint(result.flowGraph, "DEX")
        /\ result.summary.swapped = result.summary.dexUsed
        /\ result.recovered = result.summary.cexReached
        /\ result.traced = SumTaint(HopOneRows(result.flowGraph))
        /\ \A i \in DOMAIN result.flowGraph :
              result.flowGraph[i].entity.name = "DEX Swap"
                 => result.flowGraph[i].entity.type = "DEX"

\* C14 witness: a result with an exchange row below the first hop, a bridge
\* row, a registered swap venue and a heuristic one.
AllCategoriesReturned ==
    /\ result.returned
    /\ \E i \in DOMAIN result.flowGraph :
          result.flowGraph[i].entity.type = "CEX" /\ result.flowGraph[i].hop >= 2
    /\ \E i \in DOMAIN result.flowGraph : result.flowGraph[i].entity.type = "BRIDGE"
    /\ \E i \in DOMAIN result.flowGraph : result.flowGraph[i].entity.name = "DEX Swap"
    /\ \E i \in DOMAIN result.flowGraph : result.flowGraph[i].entity.name = "Jupiter v6"
    /\ result.traced < SumTaint(result.flowGraph)

----------------------------------------------------------------------------

\* C15. Untraced formula: in every returned TraceResult, the one returned for
\* a source without transactions included, the untraced amount is
\* max(0, traced - exchange - swap - bridge), never the requested amount.
UntracedFormula ==
    result.returned =>
        result.summary.untraced
            = Max(0, result.traced - result.summary.cexReached
                        - result.summary.dexUsed - result.summary.bridgeUsed)

----------------------------------------------------------------------------

\* C16. Branch-local failure: a downstream fetch that throws leaves the rows,
\* the endpoints and the other queue items as they were and the trace in its
\* loop; the items left are still taken from the queue, and the trace returns
\* a TraceResult with the queue empty or the cap reached.
BranchLocalFailure ==
    /\ [][(pc = "bfs" /\ thrown' # thrown)
             => /\ pc' = "bfs"
                /\ flowGraph' = flowGraph
                /\ endpoints' = endpoints
                /\ pushed' = pushed
                /\ queue' = Tail(queue)
                /\ result' = result]_vars
    /\ (pc = "bfs" /\ thrown # {})
          ~> (/\ pc = "returned"
              /\ result.returned
              /\ result.flowGraph = flowGraph
              /\ result.endpoints = endpoints
              /\ (queue = << >> \/ Len(flowGraph) >= RowCap))

\* C16 witness: a result returned after a downstream fetch threw and a later
\* frontier item was expanded into rows.
ReturnedAfterFailedBranch ==
    /\ pc = "returned"
    /\ result.returned
    /\ \E i, j \in DOMAIN log :
          /\ i < j
          /\ log[i].failed
          /\ ~log[j].failed
          /\ log[j].outputs > 0
    /\ \E e \in DOMAIN result.endpoints : result.endpoints[e].hop >= 2

----------------------------------------------------------------------------

\* C17. Unreachable flag: the returned TraceResult flags every downstream
\* address whose fetch threw as unreachable.
UnreachableFlagged ==
    result.returned =>
        \A i \in thrown :
            i > 1 => /\ "unreachable" \in DOMAIN result
                     /\ fetched[i] \in result.unreachable

\* C18. Root failure is fatal: when the fetch of the source wallet throws, no
\* TraceResult is returned, there is no flow graph, endpoint or queue item, no
\* other address is fetched, and the error reaches the caller's handler.
RootFailureFatal ==
    1 \in thrown =>
        /\ pc = "error"
        /\ ~result.returned
        /\ flowGraph = << >>
        /\ endpoints = << >>
        /\ queue = << >>
        /\ log = << >>
        /\ fetched = << SourceWallet >>

\* C18 witness: the root fetch threw and the caller's handler has the error.
RootFailureSurfaced ==
    /\ pc = "error"
    /\ thrown = {1}
    /\ fetched = << SourceWallet >>

----------------------------------------------------------------------------

\* a max-hops text outside 1..10: 0, a negative number, 11, not a number
HopsOutOfRange(maxHopsStr) ==
    \/ maxHopsStr = << >>
    \/ ParseNumber(maxHopsStr) < HopsFloor
    \/ ParseNumber(maxHopsStr) > HopsCeiling

\* C19. InvalidInput fails fast: with a malformed source address or a max-hops
\* text outside 1..10 typed at the prompts, no trace is started: nothing is
\* fetched and no TraceResult is produced.
InvalidInputFailsFast ==
    [][\A stolenWallet \in WalletTexts, amountStr \in AmountTexts,
          maxHopsStr \in HopsTexts, choice \in AssetChoices :
          (~validateWallet(stolenWallet).valid \/ HopsOutOfRange(maxHopsStr))
             => ~TraceStolen(stolenWallet, amountStr, maxHopsStr, choice)]_vars

----------------------------------------------------------------------------
(* The source's outgoing volumes, read from the root answer itself.        *)

IsOutgoing(transfer) ==
    transfer.fromUserAccount = SourceWallet /\ transfer.toUserAccount # SourceWallet

RECURSIVE NativeVolume(_, _)
NativeVolume(transfers, i) ==
    IF i > Len(transfers) THEN 0
    ELSE (IF IsOutgoing(transfers[i]) THEN transfers[i].amount ELSE 0)
            + NativeVolume(transfers, i + 1)

RECURSIVE TokenVolume(_, _)
TokenVolume(transfers, i) ==
    IF i > Len(transfers) THEN 0
    ELSE (IF IsOutgoing(transfers[i]) THEN transfers[i].tokenAmount ELSE 0)
            + TokenVolume(transfers, i + 1)

RECURSIVE OutgoingNative(_, _, _)
OutgoingNative(txs, lo, hi) ==
    IF lo > hi THEN 0
    ELSE IF lo = hi THEN NativeVolume(txs[lo].nativeTransfers, 1)
    ELSE LET mid == (lo + hi) \div 2
         IN  OutgoingNative(txs, lo, mid) + OutgoingNative(txs, mid + 1, hi)

RECURSIVE OutgoingTokens(_, _, _)
OutgoingTokens(txs, lo, hi) ==
    IF lo > hi THEN 0
    ELSE IF lo = hi THEN TokenVolume(txs[lo].tokenTransfers, 1)
    ELSE LET mid == (lo + hi) \div 2
         IN  OutgoingTokens(txs, lo, mid) + OutgoingTokens(txs, mid + 1, hi)

\* the outgoing token transfers of nonzero amount, as << transaction, transfer >>
PositiveTokenTransfers ==
    {p \in UNION {{<< i, j >> : j \in DOMAIN transactions[i].tokenTransfers} :
                     i \in DOMAIN transactions} :
        /\ IsOutgoing(transactions[p[1]].tokenTransfers[p[2]])
        /\ transactions[p[1]].tokenTransfers[p[2]].tokenAmount > 0}

\* the mint of the chronologically first of them
FirstTokenMint ==
    LET first == CHOOSE p \in PositiveTokenTransfers :
                    \A q \in PositiveTokenTransfers :
                        \/ transactions[p[1]].timestamp < transactions[q[1]].timestamp
                        \/ p[1] = q[1] /\ p[2] <= q[2]
    IN  transactions[first[1]].tokenTransfers[first[2]].mint

\* C20. Auto-detect rule: in auto-detect mode the trace is a token trace
\* exactly when the outgoing token volume is more than 1000 times the outgoing
\* native volume; it then traces the chronologically first token mint of
\* nonzero outgoing volume and only transfers of that mint are hop-1 rows,
\* otherwise only native transfers are; an explicit native or token selection
\* stands whatever the volumes.
AutoDetectRule ==
    pc \in {"bfs", "returned"} /\ transactions # << >> =>
        LET rows == HopOneRows(flowGraph)
            native == OutgoingNative(transactions, 1, Len(transactions))
            tokens == OutgoingTokens(transactions, 1, Len(transactions))
        IN  /\ traceType = "auto"
                  => (asset.isTokenTrace <=> tokens > TokenMultiplier * native)
            /\ traceType = "auto" /\ asset.isTokenTrace
                  => asset.tracingMint = FirstTokenMint
            /\ traceType = "sol" => ~asset.isTokenTrace
            /\ traceType = "token"
                  => asset.isTokenTrace /\ asset.tracingMint = tokenMint
            /\ asset.isTokenTrace
                  => \A i \in DOMAIN rows :
                        rows[i].isToken /\ rows[i].tokenMint = asset.tracingMint
            /\ ~asset.isTokenTrace => \A i \in DOMAIN rows : ~rows[i].isToken
            /\ result.returned
                  => /\ result.isTokenTrace = asset.isTokenTrace
                     /\ result.tokenMint = asset.tracingMint

\* C20 witness: auto-detection chose the token trace of mint m1, whose first
\* nonzero transfer comes after a transfer of amount 0 of another mint, and
\* the hop-1 rows are the m1 transfers although native and m2 transfers exist.
TokenTraceDetected ==
    /\ pc = "bfs"
    /\ traceType = "auto"
    /\ asset.isTokenTrace
    /\ asset.tracingMint = "m1"
    /\ asset.totalOutgoingSol > 0
    /\ Len(HopOneRows(flowGraph)) = 2
    /\ \E i \in DOMAIN transactions :
          /\ Len(transactions[i].tokenTransfers) >= 2
          /\ transactions[i].tokenTransfers[1].mint = "m2"
          /\ transactions[i].tokenTransfers[1].tokenAmount = 0

----------------------------------------------------------------------------

\* C21. Hop limit: every row of the flow graph has 1 <= hop <= maxHops, and
\* no frontier item with hop >= maxHops is expanded: none is fetched for and
\* none has rows made from it.
HopLimit ==
    /\ \A i \in DOMAIN flowGraph :
          1 <= flowGraph[i].hop /\ flowGraph[i].hop <= maxHops
    /\ \A i \in DOMAIN log : log[i].item.hop < maxHops
    /\ Len(fetched) <= Len(log) + 1

\* C21 witness: with max hops 2, a row at hop 2 was recorded, its frontier
\* item at the limit was never enqueued or was left unexpanded, and the trace
\* returned.
RowsUpToTheLimit ==
    /\ pc = "returned"
    /\ maxHops = 2
    /\ \E i \in DOMAIN flowGraph :
          /\ flowGraph[i].hop = maxHops
          /\ flowGraph[i].entity = NoEntity
          /\ PercentGt(flowGraph[i].taintPercent, ContinueThreshold)
    /\ Len(log) = 1

\* C23. Enqueue respects the hop limit: every frontier item ever put in the
\* queue, by the first hop or by an expansion, has hop < maxHops; with max
\* hops 1 the queue stays empty.
EnqueueBelowHopLimit ==
    /\ \A p \in DOMAIN pushed : pushed[p].item.hop < maxHops
    /\ \A q \in DOMAIN queue : queue[q].hop < maxHops
    /\ maxHops = 1 => queue = << >>

\* C24. Zero-amount transfers are skipped: no row of the flow graph, at hop 1
\* or deeper, has amount 0.
ZeroAmountSkipped ==
    \A i \in DOMAIN flowGraph : flowGraph[i].amount # 0

\* the items of pushed from position lo on, in order
PushedItemsFrom(lo) ==
    [q \in 1..(Len(pushed) - lo + 1) |-> pushed[lo + q - 1].item]

\* the expanded items log[i..] occur, in order, among pushed[p..]
RECURSIVE ExpandedInPushOrder(_, _)
ExpandedInPushOrder(i, p) ==
    IF i > Len(log) THEN TRUE
    ELSE IF p > Len(pushed) THEN FALSE
    ELSE IF pushed[p].item = log[i].item
         THEN ExpandedInPushOrder(i + 1, p + 1)
         ELSE ExpandedInPushOrder(i, p + 1)

\* C25. Level order: the queue is first in first out (what waits is always the
\* tail end of what was enqueued, in enqueue order, and the expanded items are
\* taken in enqueue order), so the rows of the flow graph appear in
\* non-decreasing hop order.
LevelOrder ==
    /\ Len(queue) <= Len(pushed)
    /\ queue = PushedItemsFrom(Len(pushed) - Len(queue) + 1)
    /\ ExpandedInPushOrder(1, 1)
    /\ \A i, j \in DOMAIN log : i <= j => log[i].item.hop <= log[j].item.hop
    /\ \A i, j \in DOMAIN flowGraph :
          i <= j => flowGraph[i].hop <= flowGraph[j].hop

\* C25 witness: a returned trace with rows at hops 1, 2 and 3, made by at
\* least three expansions, two of them of items of the same hop.
ThreeLevelsTraced ==
    /\ pc = "returned"
    /\ \A h \in 1..3 : \E i \in DOMAIN flowGraph : flowGraph[i].hop = h
    /\ \E i, j \in DOMAIN log :
          /\ i < j
          /\ log[i].item.hop = log[j].item.hop
          /\ log[i].outputs > 0
          /\ log[j].outputs > 0
    /\ \E k \in DOMAIN log : log[k].item.hop = 2 /\ log[k].outputs > 0

SkipChangesNothing ==
    /\ [](visited = {fetched[i] : i \in 2..Len(fetched)})
    /\ [][/\ visited \subseteq visited'
          /\ (/\ pc = "bfs"
              /\ pc' = "bfs"
              /\ queue # << >>
              /\ \/ Head(queue).address \in visited
                 \/ Head(queue).hop >= maxHops)
             => /\ queue' = Tail(queue)
                /\ fetched' = fetched
                /\ log' = log
                /\ flowGraph' = flowGraph
                /\ endpoints' = endpoints
                /\ visited' = visited
                /\ pushed' = pushed]_vars

\* C27 witness: an item below the hop limit was dropped because its address
\* was visited, and an address whose fetch failed is in visited.
VisitedItemDropped ==
    /\ pc \in {"bfs", "returned"}
    /\ \A p \in DOMAIN pushed : pushed[p].item.hop < maxHops
    /\ Len(pushed) - Len(queue) > Len(log)
    /\ \E i \in thrown : i >= 2 /\ fetched[i] \in visited

\* the taint of the rows of hop h, and of those among them that are not
\* terminal (neither exchange nor bridge)
HopTaint(graph, h) == SumTaint(SelectSeq(graph, LAMBDA e : e.hop = h))
NonTerminalHopTaint(graph, h) ==
    SumTaint(SelectSeq(graph,
                       LAMBDA e : e.hop = h /\ e.entity.type \notin {"CEX", "BRIDGE"}))

\* taint is handed down only from rows that are not terminal
HandedDownFromNonTerminal ==
    \A h \in 1..maxHops :
        HopTaint(flowGraph, h + 1) <= NonTerminalHopTaint(flowGraph, h)

\* C28. Terminal taint is never double counted: the taint of the rows of hop
\* h + 1 is at most the taint of the non-terminal rows of hop h, and so in
\* every returned result exchange plus bridge taint, summed over all hops, is
\* at most the traced amount, which is at most totalStolen.
TerminalTaintCountedOnce ==
    /\ HandedDownFromNonTerminal
    /\ result.returned =>
          /\ result.summary.cexReached + result.summary.bridgeUsed <= result.traced
          /\ result.traced <= result.totalStolen

\* the same, for the results of a trace that found transactions
TerminalTaintCountedOnceAfterFirstHop ==
    /\ HandedDownFromNonTerminal
    /\ (result.returned /\ pc = "returned" /\ Len(fetched) >= 1 /\ transactions # << >>) =>
          /\ result.summary.cexReached + result.summary.bridgeUsed <= result.traced
          /\ result.traced <= result.totalStolen

\* C29. Endpoints are exactly the terminal rows: at every point endpoints is
\* the subsequence of flowGraph, in the same order, of the rows whose address
\* is registered as exchange or bridge; a row of a swap venue (registered or
\* recognised as 'DEX Swap'), of a privacy service or of an unclassified
\* address is never an endpoint, and an item is enqueued from it exactly when
\* the threshold and hop rules allow.
EndpointsAreTerminalRows ==
    /\ endpoints = SelectSeq(flowGraph, LAMBDA e : RegisteredTerminal(e.address))
    /\ \A i \in DOMAIN flowGraph :
          ~RegisteredTerminal(flowGraph[i].address)
             => /\ flowGraph[i].entity.type \notin {"CEX", "BRIDGE"}
                /\ \A e \in DOMAIN endpoints : endpoints[e] # flowGraph[i]
                /\ (\E p \in DOMAIN pushed : pushed[p].row = i)
                      <=> /\ PercentGt(flowGraph[i].taintPercent, ContinueThreshold)
                          /\ flowGraph[i].hop = 1 \/ flowGraph[i].hop < maxHops

\* C29 witness: rows of a registered swap venue, of a heuristic 'DEX Swap'
\* and of a privacy service were recorded and enqueued from, next to a bridge
\* row that is the only endpoint.
VenuesStayOnTheFrontier ==
    /\ Len(endpoints) = 1
    /\ endpoints[1].entity.type = "BRIDGE"
    /\ \A t \in {"Jupiter v6", "DEX Swap", "Elusiv"} :
          \E p \in DOMAIN pushed : flowGraph[pushed[p].row].entity.name = t

\* the last n elements of a sequence
LastOf(seq, n) ==
    IF Len(seq) <= n THEN seq ELSE SubSeq(seq, Len(seq) - n + 1, Len(seq))

\* the analyses getWalletHistory reports for a wallet
HistoryOf(walletAddress) ==
    LET history == getWalletHistory(cacheFile, walletAddress)
    IN  IF history = Null THEN << >> ELSE history.analyses

ForceRefreshIgnoresCaches ==
    (lastCall.called /\ lastCall.forceRefresh)
        => /\ lastCall.source \notin {"disk", "session"}
           /\ lastCall.fetched \/ lastCall.error

====
